---- MODULE Spec2Model ----
(***************************************************************************)
(* A model of the node-red-node adapter: the Node contract (src/src/node.js), *)
(* the registration mixin createNodeRedNodeMixin (src/src/helper.js) with   *)
(* its wrapper class (constructor, setupEventHandlers,                      *)
(* registrationProperties), and the registry entry point registerNodes      *)
(* (src/unnamed/part_001).                                                   *)
(*                                                                         *)
(* JavaScript strings are sequences of one-character strings, so that       *)
(* startsWith, split, toLowerCase and camelCase are computed, not assumed.  *)
(***************************************************************************)
EXTENDS Integers, Sequences, FiniteSets, TLC

(***************************************************************************)
(* Characters and strings                                                  *)
(***************************************************************************)
LowerChars == <<"a","b","c","d","e","f","g","h","i","j","k","l","m","n","o","p","q","r","s","t","u","v","w","x","y","z">>

UpperChars == <<"A","B","C","D","E","F","G","H","I","J","K","L","M","N","O","P","Q","R","S","T","U","V","W","X","Y","Z">>

DigitChars == {"0","1","2","3","4","5","6","7","8","9"}

\* camelcase: SEPARATORS = /[_.\- ]+/
SeparatorChars == {"_", ".", "-", " "}

IsLowerChar(ch) == \E i \in 1..Len(LowerChars) : LowerChars[i] = ch

IsUpperChar(ch) == \E i \in 1..Len(UpperChars) : UpperChars[i] = ch

\* camelcase: IDENTIFIER = /([\p{Alpha}\p{N}_]|$)/u, the character alternative
IsIdentifierChar(ch) == IsLowerChar(ch) \/ IsUpperChar(ch) \/ ch \in DigitChars \/ ch = "_"

CharToLower(ch) ==
    IF IsUpperChar(ch)
    THEN LowerChars[CHOOSE i \in 1..Len(UpperChars) : UpperChars[i] = ch]
    ELSE ch

CharToUpper(ch) ==
    IF IsLowerChar(ch)
    THEN UpperChars[CHOOSE i \in 1..Len(LowerChars) : LowerChars[i] = ch]
    ELSE ch

\* String.prototype.toLowerCase / toLocaleLowerCase
ToLowerCase(s) == [i \in 1..Len(s) |-> CharToLower(s[i])]

\* String.prototype.toUpperCase
ToUpperCase(s) == [i \in 1..Len(s) |-> CharToUpper(s[i])]

\* String.prototype.startsWith
StartsWith(s, p) == Len(s) >= Len(p) /\ SubSeq(s, 1, Len(p)) = p

\* String.prototype.slice(from) with a 1-based index
SliceFrom(s, i) == SubSeq(s, i, Len(s))

\* String.prototype.split(sep) for a non-empty separator: the pieces between
\* the successive, non-overlapping occurrences of sep, empty pieces included.
RECURSIVE SplitFrom(_, _, _)
SplitFrom(s, sep, piece) ==
    IF s = <<>> THEN <<piece>>
    ELSE IF StartsWith(s, sep)
         THEN <<piece>> \o SplitFrom(SliceFrom(s, Len(sep) + 1), sep, <<>>)
         ELSE SplitFrom(Tail(s), sep, Append(piece, Head(s)))

Split(s, sep) == SplitFrom(s, sep, <<>>)

\* Array.prototype.includes
Includes(s, x) == \E i \in 1..Len(s) : s[i] = x

(***************************************************************************)
(* camelCase, the default export of the npm package "camelcase" that       *)
(* helper.js imports, called with no options.  The strings of this model   *)
(* are made of letters, digits and the separators _ . - only, so every run *)
(* of separators is followed by an identifier character or by the end.     *)
(***************************************************************************)

\* String.prototype.trim, for the space character
RECURSIVE TrimLeft(_)
TrimLeft(s) == IF s # <<>> /\ Head(s) = " " THEN TrimLeft(Tail(s)) ELSE s

RECURSIVE TrimRight(_)
TrimRight(s) ==
    IF s # <<>> /\ s[Len(s)] = " " THEN TrimRight(SubSeq(s, 1, Len(s) - 1)) ELSE s

Trim(s) == TrimRight(TrimLeft(s))

\* preserveCamelCase: walks the string with an index, inserting "-" at a
\* lower-to-upper boundary (and skipping the upper-case character), or before
\* the last of a run of upper-case characters that a lower-case one follows.
\* st = [s, i (1-based), lower, upper, lastUpper]
RECURSIVE PreserveCamelCaseFrom(_)
PreserveCamelCaseFrom(st) ==
    IF st.i > Len(st.s) THEN st.s
    ELSE LET s == st.s
             i == st.i
             ch == s[i]
             \* index > 2 ? string[index - 3] === '-' : true   (0-based index = i - 1)
             isLastLastCharPreserved == IF i - 1 > 2 THEN s[i - 3] = "-" ELSE TRUE
         IN  IF st.lower /\ IsUpperChar(ch)
             THEN PreserveCamelCaseFrom(
                    [s |-> SubSeq(s, 1, i - 1) \o <<"-">> \o SliceFrom(s, i),
                     i |-> i + 2, lower |-> FALSE, upper |-> TRUE, lastUpper |-> st.upper])
             ELSE IF st.upper /\ st.lastUpper /\ IsLowerChar(ch) /\ ~isLastLastCharPreserved
             THEN PreserveCamelCaseFrom(
                    [s |-> SubSeq(s, 1, i - 2) \o <<"-">> \o SliceFrom(s, i - 1),
                     i |-> i + 1, lower |-> TRUE, upper |-> FALSE, lastUpper |-> st.upper])
             ELSE PreserveCamelCaseFrom(
                    [s |-> s, i |-> i + 1, lower |-> IsLowerChar(ch),
                     upper |-> IsUpperChar(ch), lastUpper |-> st.upper])

PreserveCamelCase(s) ==
    PreserveCamelCaseFrom([s |-> s, i |-> 1, lower |-> FALSE, upper |-> FALSE, lastUpper |-> FALSE])

\* input.replace(LEADING_SEPARATORS, '')
RECURSIVE StripLeadingSeparators(_)
StripLeadingSeparators(s) ==
    IF s # <<>> /\ Head(s) \in SeparatorChars THEN StripLeadingSeparators(Tail(s)) ELSE s

\* input.replace(SEPARATORS_AND_IDENTIFIER, (_, identifier) => toUpperCase(identifier)):
\* a run of separators disappears and the identifier character after it is upper-cased.
RECURSIVE ReplaceSeparators(_, _)
ReplaceSeparators(s, afterSep) ==
    IF s = <<>> THEN <<>>
    ELSE IF Head(s) \in SeparatorChars
         THEN ReplaceSeparators(Tail(s), TRUE)
         ELSE <<(IF afterSep THEN CharToUpper(Head(s)) ELSE Head(s))>>
              \o ReplaceSeparators(Tail(s), FALSE)

\* .replace(NUMBERS_AND_IDENTIFIER, m => toUpperCase(m)): a run of digits and the
\* identifier character after it are upper-cased; the scan goes on after that character.
RECURSIVE ReplaceNumbers(_, _)
ReplaceNumbers(s, afterDigit) ==
    IF s = <<>> THEN <<>>
    ELSE IF Head(s) \in DigitChars
         THEN <<Head(s)>> \o ReplaceNumbers(Tail(s), TRUE)
         ELSE <<(IF afterDigit /\ IsIdentifierChar(Head(s)) THEN CharToUpper(Head(s)) ELSE Head(s))>>
              \o ReplaceNumbers(Tail(s), FALSE)

PostProcess(s) == ReplaceNumbers(ReplaceSeparators(s, FALSE), FALSE)

camelCase(input) ==
    LET trimmed == Trim(input)
    IN  IF Len(trimmed) = 0 THEN <<>>
        ELSE IF Len(trimmed) = 1
        THEN (IF trimmed[1] \in SeparatorChars THEN <<>> ELSE ToLowerCase(trimmed))
        ELSE LET hasUpperCase == trimmed # ToLowerCase(trimmed)
                 preserved == IF hasUpperCase THEN PreserveCamelCase(trimmed) ELSE trimmed
             IN  PostProcess(ToLowerCase(StripLeadingSeparators(preserved)))


(***************************************************************************)
(* JavaScript values: undefined, strings, and the host handle (RED).       *)
(***************************************************************************)
Undefined == [t |-> "undefined"]

Str(s) == [t |-> "string", s |-> s]

\* The host runtime object passed to createNodeRedNodeMixin(RED)
Host(n) == [t |-> "object", id |-> n]

\* ToBoolean, as used by `!type` and `!settings`
Truthy(v) == v.t = "object" \/ (v.t = "string" /\ v.s # <<>>)

\* String(v), as done by a template literal
ToStringJS(v) == IF v.t = "string" THEN v.s ELSE <<"u","n","d","e","f","i","n","e","d">>

(***************************************************************************)
(* Model bounds                                                            *)
(***************************************************************************)
\* calls of the function createNodeRedNodeMixin(RED) returns
MaxCalls == 2

\* instances constructed (new Wrapper(config))
MaxInstances == 2

(***************************************************************************)
(* The classes handed to the adapter.  Node is the contract of node.js; A  *)
(* and B extend Node, C extends A, X extends nothing.                      *)
(***************************************************************************)
Classes == {"Node", "A", "B", "C", "X"}

Definitions == Classes \ {"Node"}

Parent(c) ==
    CASE c = "A" -> "Node"
      [] c = "B" -> "Node"
      [] c = "C" -> "A"
      [] OTHER -> "Object"

\* The constructors on c's prototype chain, c first (static members are
\* inherited along it), and the strict ancestors.
RECURSIVE Chain(_)
Chain(c) == IF c = "Object" THEN <<>> ELSE <<c>> \o Chain(Parent(c))

\* A validation that lets every class through
ExtendsAnything(c) == TRUE

\* BaseClass.prototype instanceof Node: Node.prototype is on the prototype
\* chain of BaseClass.prototype, the object itself excluded.
ExtendsNode(c) == Includes(Tail(Chain(c)), "Node")

\* Method names
constructorName == <<"c","o","n","s","t","r","u","c","t","o","r">>

onInput == <<"o","n","I","n","p","u","t">>

onClose == <<"o","n","C","l","o","s","e">>

flowContext == <<"f","l","o","w","C","o","n","t","e","x","t">>

globalContext == <<"g","l","o","b","a","l","C","o","n","t","e","x","t">>

evaluateProperty == <<"e","v","a","l","u","a","t","e","P","r","o","p","e","r","t","y">>

\* a method of an author's class that starts with "on" and is no hook of Node
onward == <<"o","n","w","a","r","d">>

\* Object.getOwnPropertyNames(Node.prototype), in declaration order
NodePrototypeOwnNames ==
    <<constructorName, onInput, onClose, flowContext, globalContext, evaluateProperty>>

\* Object.getOwnPropertyNames(c.prototype) of the classes handed in
PrototypeOwnNames(c) ==
    CASE c = "Node" -> NodePrototypeOwnNames
      [] c = "A" -> <<constructorName, onInput>>
      [] c = "B" -> <<constructorName, onInput, onward, onClose>>
      [] c = "C" -> <<constructorName, onClose>>
      [] OTHER -> <<constructorName, onInput>>

(***************************************************************************)
(* What a call of a class's static init does.                              *)
(*   notfn     the class overrides init with something that is no function *)
(*   value     returns a value that is no Promise (Node.init returns        *)
(*             undefined)                                                   *)
(*   throws    throws                                                       *)
(*   resolves, rejects          returns a Promise that later settles so     *)
(*   thenResolves, thenRejects  returns a thenable that is no instance of   *)
(*             Promise and later settles so                                 *)
(***************************************************************************)
InitKinds == {"notfn", "value", "throws", "resolves", "rejects", "thenResolves", "thenRejects"}

PromiseKinds == {"resolves", "rejects"}

ThenableKinds == {"thenResolves", "thenRejects"}

VARIABLES
    statics,      \* class -> its own static properties RED and type (property descriptors)
    ownInit,      \* class -> what its own static init does, or "inherit"
    settingsRet,  \* class -> what its static settings() returns
    calls,        \* the calls of the adapter function made so far
    initCalls,    \* class -> number of calls BaseClass.init() with that class as BaseClass
    instances,    \* the instances constructed from wrappers
    hostCalls,    \* the calls RED.nodes.registerType(...) made so far
    run,          \* the outcome of the registerNodes calls
    descriptors   \* what the calls of registrationProperties() returned

vars == <<statics, ownInit, settingsRet, calls, initCalls, instances, hostCalls, run, descriptors>>

(***************************************************************************)
(* Static properties.  A slot is absent or a data property descriptor.     *)
(***************************************************************************)
Absent == [present |-> FALSE]

DataProp(v, w, c) == [present |-> TRUE, value |-> v, writable |-> w, configurable |-> c]

\* [[Get]] of a static property: the first own property on the chain
RECURSIVE GetStaticIn(_, _, _)
GetStaticIn(st, c, name) ==
    IF c = "Object" THEN Undefined
    ELSE IF st[c][name].present THEN st[c][name].value
    ELSE GetStaticIn(st, Parent(c), name)

GetStatic(c, name) == GetStaticIn(statics, c, name)

\* The init function c.init resolves to: its own, or the inherited one
\* (Node.init, node.js, returns undefined).
RECURSIVE InitOf(_)
InitOf(c) ==
    IF c = "Node" \/ c = "Object" THEN "value"
    ELSE IF ownInit[c] # "inherit" THEN ownInit[c]
    ELSE InitOf(Parent(c))

\* Object.defineProperty(obj, name, {value, writable: false, configurable: false}):
\* allowed on an absent or configurable property, on a writable one, and on a
\* frozen one when the value is the same; a TypeError otherwise.
DefineAllowed(slot, v) ==
    \/ ~slot.present
    \/ slot.configurable
    \/ slot.writable
    \/ slot.value = v

Defined(v) == DataProp(v, FALSE, FALSE)


(***************************************************************************)
(* createNodeRedNodeMixin(RED)(BaseClass, type), helper.js                 *)
(***************************************************************************)
NoError == [name |-> "none"]

\* new Error(`${BaseClass.name} must extend Node`)
ContractViolation == [name |-> "ContractViolation"]

\* new Error(`${type} must be provided`), and registerNodes' "must declare its type"
MissingType == [name |-> "MissingType"]

\* the TypeError of Object.defineProperty on a frozen property
DefineTypeError == [name |-> "TypeError"]

\* whatever c's static init throws, or its Promise rejects with
InitError(c) == [name |-> "InitError", by |-> c]

\* EVENT_HANDLER_PREFIX_RESERVED_WORD
EVENT_HANDLER_PREFIX_RESERVED_WORD == <<"o","n">>

\* Object.getOwnPropertyNames(Node.prototype).filter(startsWith("on"))
EVENT_HANDLER_RESERVED_METHOD_NAMES ==
    SelectSeq(NodePrototypeOwnNames,
              LAMBDA methodName : StartsWith(methodName, EVENT_HANDLER_PREFIX_RESERVED_WORD))

\* An injection that is not guarded and redefines the property whatever it holds
DefineAlways(r, cls, name, v) ==
    [st |-> [r.st EXCEPT ![cls][name] = Defined(v)], err |-> r.err]

\* if (cls[name] === undefined) Object.defineProperty(cls, name,
\*   {value: v, writable: false, configurable: false});
\* r = [st, err]: the static properties so far and the error thrown so far.
DefineIfUndefined(r, cls, name, v) ==
    IF r.err # NoError THEN r
    ELSE IF GetStaticIn(r.st, cls, name) # Undefined THEN r
    ELSE IF DefineAllowed(r.st[cls][name], v)
         THEN [st |-> [r.st EXCEPT ![cls][name] = Defined(v)], err |-> NoError]
         ELSE [st |-> r.st, err |-> DefineTypeError]

\* The three injections: Node.RED, BaseClass.RED, BaseClass.type
InjectMetadata(st, RED, BaseClass, type) ==
    DefineIfUndefined(
        DefineIfUndefined(
            DefineIfUndefined([st |-> st, err |-> NoError], "Node", "RED", RED),
            BaseClass, "RED", RED),
        BaseClass, "type", type)

\* An adapter that does not await the result of init
AfterInitNotAwaited(kind, BaseClass) ==
    CASE kind = "notfn" -> [pc |-> "fulfilled", err |-> NoError, init |-> "notcalled"]
      [] kind = "value" -> [pc |-> "fulfilled", err |-> NoError, init |-> "returned"]
      [] kind = "throws" -> [pc |-> "rejected", err |-> InitError(BaseClass), init |-> "threw"]
      [] OTHER -> [pc |-> "fulfilled", err |-> NoError, init |-> "pending"]

\* What the adapter does with the result of BaseClass.init(), by the kind of
\* init: [pc, err, init] where pc is the adapter's position (awaiting: suspended
\* at `await result`; fulfilled: the wrapper class was returned; rejected: the
\* call failed with err) and init is the state of the init hook.
AfterInit(kind, BaseClass) ==
    CASE kind = "notfn" -> [pc |-> "fulfilled", err |-> NoError, init |-> "notcalled"]
      [] kind = "value" -> [pc |-> "fulfilled", err |-> NoError, init |-> "returned"]
      [] kind = "throws" -> [pc |-> "rejected", err |-> InitError(BaseClass), init |-> "threw"]
      [] kind \in PromiseKinds -> [pc |-> "awaiting", err |-> NoError, init |-> "pending"]
      [] kind \in ThenableKinds -> [pc |-> "fulfilled", err |-> NoError, init |-> "pending"]

\* typeof BaseClass.init === "function" ? 1 call : none
InitInvocations(kind) == IF kind = "notfn" THEN 0 ELSE 1

\* One call of the async function, run up to its first suspension or its end.
AdaptCall(RED, BaseClass, type) ==
    /\ Len(calls) < MaxCalls
    /\ LET call == [cls |-> BaseClass, type |-> type, RED |-> RED]
           failed(e) == call @@ [pc |-> "rejected", err |-> e, init |-> "notcalled"]
           inj == InjectMetadata(statics, RED, BaseClass, type)
           kind == InitOf(BaseClass)
       IN  IF ~ExtendsNode(BaseClass)
           THEN /\ calls' = Append(calls, failed(ContractViolation))
                /\ UNCHANGED <<statics, initCalls>>
           ELSE IF ~Truthy(type)
           THEN /\ calls' = Append(calls, failed(MissingType))
                /\ UNCHANGED <<statics, initCalls>>
           ELSE IF inj.err # NoError
           THEN /\ calls' = Append(calls, failed(inj.err))
                /\ statics' = inj.st
                /\ UNCHANGED initCalls
           ELSE /\ calls' = Append(calls, call @@ AfterInit(kind, BaseClass))
                /\ statics' = inj.st
                /\ initCalls' = [initCalls EXCEPT ![BaseClass] = @ + InitInvocations(kind)]
    /\ UNCHANGED <<ownInit, settingsRet, instances, hostCalls, run, descriptors>>

\* How a pending init result settles, by the kind of init
SettledAs(kind) == IF kind \in {"resolves", "thenResolves"} THEN "resolved" ELSE "rejected"

\* A resumption that swallows the rejection (await inside try/catch)
ResumeIgnoringRejection(call, settled) ==
    IF call.pc # "awaiting" THEN call ELSE [call EXCEPT !.pc = "fulfilled"]

\* The call resumed after `await result`: it returns the wrapper, or the
\* rejection is thrown out of the async function.
Resume(call, settled) ==
    IF call.pc # "awaiting" THEN call
    ELSE IF settled = "resolved"
         THEN [call EXCEPT !.pc = "fulfilled"]
         ELSE [call EXCEPT !.pc = "rejected", !.err = InitError(call.cls)]

\* The Promise (or thenable) returned by init settles; a call suspended on it resumes.
InitSettles(k) ==
    /\ k \in 1..Len(calls)
    /\ calls[k].init = "pending"
    /\ LET settled == SettledAs(InitOf(calls[k].cls))
       IN  calls' = [calls EXCEPT ![k] = Resume([@ EXCEPT !.init = settled], settled)]
    /\ UNCHANGED <<statics, ownInit, settingsRet, initCalls, instances, hostCalls, run, descriptors>>

(***************************************************************************)
(* The wrapper class: constructor and setupEventHandlers                   *)
(***************************************************************************)
\* methodName.split(EVENT_HANDLER_PREFIX_RESERVED_WORD)[1].toLocaleLowerCase()
EventName(methodName) == ToLowerCase(Split(methodName, EVENT_HANDLER_PREFIX_RESERVED_WORD)[2])

\* The method names along the prototype chain of c, c's own first
RECURSIVE ChainPrototypeNames(_)
ChainPrototypeNames(c) ==
    IF c = "Object" THEN <<>> ELSE PrototypeOwnNames(c) \o ChainPrototypeNames(Parent(c))

\* A binder that also binds the reserved methods the class inherits
SetupInheritedEventHandlers(BaseClass) ==
    LET bound == SelectSeq(ChainPrototypeNames(BaseClass),
                           LAMBDA methodName : Includes(EVENT_HANDLER_RESERVED_METHOD_NAMES, methodName))
    IN  [i \in 1..Len(bound) |-> [op |-> "on", event |-> EventName(bound[i]), method |-> bound[i]]]

\* setupEventHandlers: one this.on(event, this[methodName]) for every own
\* property name of BaseClass.prototype that is a reserved method name.
SetupEventHandlers(BaseClass) ==
    LET bound == SelectSeq(PrototypeOwnNames(BaseClass),
                           LAMBDA methodName : Includes(EVENT_HANDLER_RESERVED_METHOD_NAMES, methodName))
    IN  [i \in 1..Len(bound) |-> [op |-> "on", event |-> EventName(bound[i]), method |-> bound[i]]]

\* Node's constructor: Node.RED.nodes.createNode(this, config), then the fields
NodeConstructor == <<[op |-> "createNode"]>>

\* A constructor that binds the handlers before the instance is created in the host
WrapperConstructorBindingFirst(BaseClass) ==
    <<[op |-> "setupEventHandlers"]>> \o SetupEventHandlers(BaseClass)
        \o NodeConstructor \o <<[op |-> "baseConstructor"]>>

\* new Wrapper(config): super(config), which runs the author's constructor and
\* Node's inside it (createNode comes first, the author's constructor body ends
\* after it), then this.setupEventHandlers() and its this.on(...) calls.
WrapperConstructor(BaseClass) ==
    NodeConstructor \o <<[op |-> "baseConstructor"]>>
        \o <<[op |-> "setupEventHandlers"]>> \o SetupEventHandlers(BaseClass)

\* The wrapper class is whatever a fulfilled call returned.
HasWrapper(k) == k \in 1..Len(calls) /\ calls[k].pc = "fulfilled"

\* A constructor that runs the static init of the class again
ConstructCallingInit(k) ==
    /\ HasWrapper(k)
    /\ Len(instances) < MaxInstances
    /\ instances' = Append(instances, [wrapper |-> k, log |-> WrapperConstructor(calls[k].cls)])
    /\ initCalls' = [initCalls EXCEPT ![calls[k].cls] = @ + 1]
    /\ UNCHANGED <<statics, ownInit, settingsRet, calls, hostCalls, run, descriptors>>

Construct(k) ==
    /\ HasWrapper(k)
    /\ Len(instances) < MaxInstances
    /\ instances' = Append(instances, [wrapper |-> k, log |-> WrapperConstructor(calls[k].cls)])
    /\ UNCHANGED <<statics, ownInit, settingsRet, calls, initCalls, hostCalls, run, descriptors>>


(***************************************************************************)
(* registrationProperties(), the static method of the wrapper class        *)
(***************************************************************************)
Null == [t |-> "null"]

\* An object literal: its own string-keyed properties in insertion order.
\* (No key of the model is an array index, which would be enumerated first.)
Obj(entries) == [t |-> "object", entries |-> entries]

HasKey(entries, key) == \E i \in 1..Len(entries) : entries[i].key = key

GetKey(entries, key) == entries[CHOOSE i \in 1..Len(entries) : entries[i].key = key].value

\* settings[key] = value: an existing property keeps its place, a new one goes last
SetKey(entries, key, value) ==
    IF HasKey(entries, key)
    THEN [i \in 1..Len(entries) |->
            IF entries[i].key = key THEN [key |-> key, value |-> value] ELSE entries[i]]
    ELSE Append(entries, [key |-> key, value |-> value])

\* delete settings[key]
DeleteKey(entries, key) == SelectSeq(entries, LAMBDA e : e.key # key)

\* A key built as camelCase(type) followed by the setting name as it is
NewKeyCaseUnchanged(type, key) == camelCase(ToStringJS(type)) \o key

\* const newKey = camelCase(`${BaseClass.type}-${key}`)
NewKey(type, key) == camelCase(ToStringJS(type) \o <<"-">> \o key)

\* One iteration of the for-in body: settings[newKey] = settings[key]; delete settings[key]
RenameKey(entries, type, key) ==
    DeleteKey(SetKey(entries, NewKey(type, key), GetKey(entries, key)), key)

\* for (const key in settings) { ... }: the keys are those the object has when
\* the loop starts, in order; a key deleted before its turn is skipped and a key
\* added by the body is not visited (V8 enumerates the keys once, up front).
RECURSIVE ForInRename(_, _, _)
ForInRename(entries, type, keys) ==
    IF keys = <<>> THEN entries
    ELSE IF ~HasKey(entries, Head(keys)) THEN ForInRename(entries, type, Tail(keys))
    ELSE ForInRename(RenameKey(entries, type, Head(keys)), type, Tail(keys))

KeysOf(entries) == [i \in 1..Len(entries) |-> entries[i].key]

\* NamespacedSettings without `if (!settings) return undefined`: for-in over
\* null or undefined runs no iteration and the value itself is returned.
NamespacedSettingsUnguarded(settings, type) ==
    IF settings.t # "object" THEN settings
    ELSE Obj(ForInRename(settings.entries, type, KeysOf(settings.entries)))

\* The settings member of the descriptor: undefined when settings() returned a
\* falsy value, else the very object settings() returned, its keys renamed in place.
NamespacedSettings(settings, type) ==
    IF ~Truthy(settings) THEN Undefined
    ELSE Obj(ForInRename(settings.entries, type, KeysOf(settings.entries)))

\* The class whose static settings()/credentials() a class resolves to: C
\* declares none and inherits A's.
StaticsOwner(c) == IF c = "C" THEN "A" ELSE c

username == <<"u","s","e","r","n","a","m","e">>

\* BaseClass.credentials(): A declares a schema, the others inherit Node's, which returns undefined
CredentialsOf(c) ==
    IF StaticsOwner(c) = "A" THEN Obj(<<[key |-> username, value |-> 0]>>) ELSE Undefined

\* calls of registrationProperties()
MaxDescriptors == 2

\* Wrapper.registrationProperties() of the wrapper call k returned.  When
\* settings() hands out one shared object, the renaming is done on that object.
RegistrationProperties(k) ==
    /\ HasWrapper(k)
    /\ Len(descriptors) < MaxDescriptors
    /\ LET BaseClass == calls[k].cls
           owner == StaticsOwner(BaseClass)
           settings == settingsRet[owner].obj
           result == NamespacedSettings(settings, GetStatic(BaseClass, "type"))
       IN  /\ descriptors' = Append(descriptors,
                 [wrapper |-> k, returned |-> settings,
                  credentials |-> CredentialsOf(BaseClass), settings |-> result])
           /\ settingsRet' = IF settingsRet[owner].shared /\ Truthy(settings)
                             THEN [settingsRet EXCEPT ![owner].obj = result]
                             ELSE settingsRet
    /\ UNCHANGED <<statics, ownInit, calls, initCalls, instances, hostCalls, run>>

(***************************************************************************)
(* registerNodes(RED, nodes) and the mixin it applies, part_001            *)
(***************************************************************************)
\* nodeRedNodeMixin(node): the class must extend Node; the wrapper is returned at once
NodeRedNodeMixin(BaseClass) ==
    IF ~ExtendsNode(BaseClass)
    THEN [err |-> ContractViolation]
    ELSE [err |-> NoError, wrapper |-> [by |-> "mixin", cls |-> BaseClass]]

\* RED.nodes.registerType(node.type, nodeRedNodeMixin(node)): two arguments
RegisterTypeCall(RED, type, wrapper) ==
    [RED |-> RED, type |-> type, wrapper |-> wrapper, props |-> Undefined]

\* A loop that skips a node without a type instead of throwing
RECURSIVE RegisterLoopSkipping(_, _, _, _)
RegisterLoopSkipping(RED, nodes, i, out) ==
    IF i > Len(nodes) THEN out
    ELSE LET node == nodes[i]
             type == GetStatic(node, "type")
             mixed == NodeRedNodeMixin(node)
         IN  IF ~Truthy(type) THEN RegisterLoopSkipping(RED, nodes, i + 1, out)
             ELSE IF mixed.err # NoError THEN [out EXCEPT !.err = mixed.err, !.at = i]
             ELSE RegisterLoopSkipping(RED, nodes, i + 1,
                     [out EXCEPT !.calls = Append(@, RegisterTypeCall(RED, type, mixed.wrapper))])

\* A loop that puts each registerType call ahead of the calls made before it
RECURSIVE RegisterLoopPrepending(_, _, _, _)
RegisterLoopPrepending(RED, nodes, i, out) ==
    IF i > Len(nodes) THEN out
    ELSE LET node == nodes[i]
             type == GetStatic(node, "type")
             mixed == NodeRedNodeMixin(node)
         IN  IF ~Truthy(type) THEN [out EXCEPT !.err = MissingType, !.at = i]
             ELSE IF mixed.err # NoError THEN [out EXCEPT !.err = mixed.err, !.at = i]
             ELSE RegisterLoopPrepending(RED, nodes, i + 1,
                     [out EXCEPT !.calls = <<RegisterTypeCall(RED, type, mixed.wrapper)>> \o @])

\* The loop of registerNodes from its i-th node on; out = [calls, err, at]: the
\* registerType calls made, and the error thrown with the index it was thrown at.
RECURSIVE RegisterLoop(_, _, _, _)
RegisterLoop(RED, nodes, i, out) ==
    IF i > Len(nodes) THEN out
    ELSE LET node == nodes[i]
             type == GetStatic(node, "type")
             mixed == NodeRedNodeMixin(node)
         IN  IF ~Truthy(type) THEN [out EXCEPT !.err = MissingType, !.at = i]
             ELSE IF mixed.err # NoError THEN [out EXCEPT !.err = mixed.err, !.at = i]
             ELSE RegisterLoop(RED, nodes, i + 1,
                     [out EXCEPT !.calls = Append(@, RegisterTypeCall(RED, type, mixed.wrapper))])

\* length of the list handed to registerNodes
MaxNodes == 3

\* The entry point of a package calls registerNodes once, when the host loads it.
\* The record kept of the call: the list, the node.type values the classes had,
\* the error thrown and where, and the number of registerType calls made.
RegisterNodes(RED, nodes) ==
    /\ run = <<>>
    /\ LET out == RegisterLoop(RED, nodes, 1, [calls |-> <<>>, err |-> NoError, at |-> 0])
       IN  /\ hostCalls' = hostCalls \o out.calls
           /\ run' = Append(run, [RED |-> RED, nodes |-> nodes,
                                  types |-> [i \in 1..Len(nodes) |-> GetStatic(nodes[i], "type")],
                                  err |-> out.err, at |-> out.at, made |-> Len(out.calls)])
    /\ UNCHANGED <<statics, ownInit, settingsRet, calls, initCalls, instances, descriptors>>

(***************************************************************************)
(* The adapter, its Promises and the instances                             *)
(***************************************************************************)
\* Type strings handed to the adapter
typeOne == <<"n","1">>

typeTwo == <<"m","y","-","n">>

AdapterTypes == {Str(typeOne), Str(typeTwo), Undefined}

\* Two host runtimes (two RED objects)
Hosts == {Host(1), Host(2)}

\* static RED; static type;  (class fields of Node: own, undefined, writable, configurable)
NodeStatics == [RED |-> DataProp(Undefined, TRUE, TRUE), type |-> DataProp(Undefined, TRUE, TRUE)]

NoStatics == [RED |-> Absent, type |-> Absent]

NoSettings == [shared |-> FALSE, obj |-> Undefined]

Init ==
    /\ statics = [c \in Classes |-> IF c = "Node" THEN NodeStatics ELSE NoStatics]
    /\ ownInit \in {f \in [Classes -> InitKinds \cup {"inherit"}] :
                      /\ f["Node"] = "value"
                      /\ f["A"] # "inherit"
                      /\ f["B"] = "inherit"
                      /\ f["C"] = "inherit"
                      /\ f["X"] = "value"}
    /\ settingsRet = [c \in Classes |-> NoSettings]
    /\ calls = <<>>
    /\ initCalls = [c \in Classes |-> 0]
    /\ instances = <<>>
    /\ hostCalls = <<>>
    /\ run = <<>>
    /\ descriptors = <<>>

Next ==
    \/ \E RED \in Hosts, BaseClass \in Definitions, type \in AdapterTypes :
          AdaptCall(RED, BaseClass, type)
    \/ \E k \in 1..MaxCalls : InitSettles(k)
    \/ \E k \in 1..MaxCalls : Construct(k)

Spec == Init /\ [][Next]_vars


(***************************************************************************)
(* registerNodes over classes that declare a static type                   *)
(***************************************************************************)
dup == <<"d","u","p">>

\* static type = "..." written by the author: an own, writable, configurable property
Declared(s) == DataProp(Str(s), TRUE, TRUE)

\* What each class may declare as its static type (Absent: it declares none)
DeclaredTypes(c) ==
    CASE c = "A" -> {Absent, Declared(dup)}
      [] c = "B" -> {Absent, Declared(dup), Declared(<<"b">>), Declared(<<>>)}
      [] c = "C" -> {Absent, Declared(<<"c">>)}
      [] c = "X" -> {Absent, Declared(<<"x">>)}
      [] OTHER -> {DataProp(Undefined, TRUE, TRUE)}

\* The lists of at most n classes
RECURSIVE NodeLists(_)
NodeLists(n) ==
    IF n = 0 THEN {<<>>}
    ELSE NodeLists(n - 1) \cup {Append(l, c) : l \in {m \in NodeLists(n - 1) : Len(m) = n - 1},
                                                c \in Definitions}

InitRegister ==
    /\ \E a \in DeclaredTypes("A"), b \in DeclaredTypes("B"),
          c \in DeclaredTypes("C"), x \in DeclaredTypes("X") :
          statics = [cls \in Classes |->
                       CASE cls = "Node" -> NodeStatics
                         [] cls = "A" -> [RED |-> Absent, type |-> a]
                         [] cls = "B" -> [RED |-> Absent, type |-> b]
                         [] cls = "C" -> [RED |-> Absent, type |-> c]
                         [] OTHER -> [RED |-> Absent, type |-> x]]
    /\ ownInit = [c \in Classes |-> IF c \in {"Node", "A", "X"} THEN "value" ELSE "inherit"]
    /\ settingsRet = [c \in Classes |-> NoSettings]
    /\ calls = <<>>
    /\ initCalls = [c \in Classes |-> 0]
    /\ instances = <<>>
    /\ hostCalls = <<>>
    /\ run = <<>>
    /\ descriptors = <<>>

NextRegister ==
    \/ \E nodes \in NodeLists(MaxNodes) : RegisterNodes(Host(1), nodes)
    \/ \E BaseClass \in Definitions : AdaptCall(Host(1), BaseClass, Str(typeOne))

SpecRegister == InitRegister /\ [][NextRegister]_vars

(***************************************************************************)
(* registrationProperties over the settings a class may declare            *)
(***************************************************************************)
\* length of the generated setting names
MaxKeyLen == 2

\* entries of a settings object
MaxSettings == 2

KeyChars == {"a", "A"}

RECURSIVE StringsUpTo(_)
StringsUpTo(n) ==
    IF n = 0 THEN {<<>>}
    ELSE StringsUpTo(n - 1) \cup {Append(w, ch) : w \in {v \in StringsUpTo(n - 1) : Len(v) = n - 1},
                                                   ch \in KeyChars}

customSetting == <<"c","u","s","t","o","m","S","e","t","t","i","n","g">>

node1 == <<"n","o","d","e","1">>

exampleSetting == <<"e","x","a","m","p","l","e","S","e","t","t","i","n","g">>

\* The types of the README's examples
nodeDash1 == <<"n","o","d","e","-","1">>

myNode == <<"m","y","-","n","o","d","e">>

\* Setting names: every name over KeyChars, a name with a digit, one with a
\* separator, and the README's customSetting and exampleSetting
SettingKeys ==
    (StringsUpTo(MaxKeyLen) \ {<<>>})
        \cup {<<"a","1","a">>, <<"a","_","a">>, customSetting, exampleSetting}

\* Setting objects: distinct keys in insertion order, the i-th value object is i
RECURSIVE KeyLists(_)
KeyLists(n) ==
    IF n = 0 THEN {<<>>}
    ELSE KeyLists(n - 1) \cup {Append(l, key) : l \in {m \in KeyLists(n - 1) : Len(m) = n - 1},
                                                 key \in SettingKeys}

SettingsObjects ==
    {Obj([i \in 1..Len(l) |-> [key |-> l[i], value |-> i]]) :
        l \in {m \in KeyLists(MaxSettings) : \A i, j \in 1..Len(m) : i # j => m[i] # m[j]}}

SettingTypes == {Str(<<"a">>), Str(node1), Str(typeTwo), Str(nodeDash1), Str(myNode)}

InitSettings ==
    /\ statics = [c \in Classes |-> IF c = "Node" THEN NodeStatics ELSE NoStatics]
    /\ ownInit = [c \in Classes |-> IF c \in {"Node", "A", "X"} THEN "value" ELSE "inherit"]
    /\ \E shared \in BOOLEAN, obj \in SettingsObjects \cup {Undefined, Null} :
          settingsRet = [c \in Classes |->
                           IF c = "A" THEN [shared |-> shared, obj |-> obj] ELSE NoSettings]
    /\ calls = <<>>
    /\ initCalls = [c \in Classes |-> 0]
    /\ instances = <<>>
    /\ hostCalls = <<>>
    /\ run = <<>>
    /\ descriptors = <<>>

NextSettings ==
    \/ \E type \in SettingTypes : calls = <<>> /\ AdaptCall(Host(1), "A", type)
    \/ \E k \in 1..MaxCalls : RegistrationProperties(k)

SpecSettings == InitSettings /\ [][NextSettings]_vars


(***************************************************************************)
(* Properties                                                              *)
(***************************************************************************)
Descriptors == {descriptors[i] : i \in 1..Len(descriptors)}

\* The type of the definition a descriptor was computed for
DescriptorType(d) == GetStatic(calls[d.wrapper].cls, "type")

\* k with its first letter capitalised
Capitalised(k) == <<CharToUpper(Head(k))>> \o Tail(k)

\* A setting name that is camelCase already, as customSetting is: for such a
\* name camelCase(`${T}-${k}`) is camelCase(T) followed by k capitalised.
PlainKey(k) == IsLowerChar(Head(k)) /\ camelCase(k) = k

PlainKeys(obj) == \A i \in 1..Len(obj.entries) : PlainKey(obj.entries[i].key)

\* C1: for every map settings() returns (here: every map of camelCase names), the
\* descriptor's settings holds, for each original key k, the key camelCase(T)
\* followed by k capitalised, mapped to the same value object, and holds none of
\* the original keys.
C1_EveryKeyNamespaced ==
    \A d \in Descriptors :
        (Truthy(d.returned) /\ PlainKeys(d.returned)) =>
            \A i \in 1..Len(d.returned.entries) :
                LET e == d.returned.entries[i]
                    namespaced == camelCase(DescriptorType(d).s) \o Capitalised(e.key)
                IN  /\ HasKey(d.settings.entries, namespaced)
                    /\ GetKey(d.settings.entries, namespaced) = e.value
                    /\ ~HasKey(d.settings.entries, e.key)

\* C7: when settings() returns undefined or null, the descriptor's settings is undefined.
C7_AbsentSettingsYieldUndefined ==
    \A d \in Descriptors : ~Truthy(d.returned) => d.settings = Undefined

\* C7 witness: registrationProperties() has been called on a class whose
\* settings() returns null, and on one whose settings() returns undefined.
C7_Witness ==
    \E d \in Descriptors :
        /\ d.returned \in {Null, Undefined}
        /\ d.settings = Undefined
        /\ d.returned = Null \/ Len(descriptors) = MaxDescriptors


Runs == {run[i] : i \in 1..Len(run)}

\* The positions of a run's list whose definition lacks a type (node.type is falsy)
Typeless(r) == {i \in 1..Len(r.nodes) : ~Truthy(r.types[i])}

FirstTypeless(r) == CHOOSE i \in Typeless(r) : \A j \in Typeless(r) : i <= j

\* C2, as claimed: a list with a definition lacking a type, at whatever position,
\* makes registerNodes throw MissingType before any call to the host.
C2_MissingTypeBeforeAnyHostCall ==
    \A r \in Runs : Typeless(r) # {} => r.err = MissingType /\ r.made = 0

\* C2, amended: such a list makes registerNodes throw at or before the first
\* definition lacking a type: MissingType at that definition, unless an earlier
\* definition does not extend Node and ContractViolation is thrown there.  No
\* registerType call is made for the definition it throws at nor for a later
\* one; one call each, in order, has been made for the definitions before it.
C2_MissingTypeStopsTheLoop ==
    \A r \in Runs :
        Typeless(r) # {} =>
            /\ r.err # NoError
            /\ r.at \in 1..FirstTypeless(r)
            /\ r.at = FirstTypeless(r) => r.err = MissingType
            /\ r.at < FirstTypeless(r) => r.err = ContractViolation /\ ~ExtendsNode(r.nodes[r.at])
            /\ r.made = r.at - 1
            /\ Len(hostCalls) = r.made
            /\ \A i \in 1..r.made :
                  /\ hostCalls[i].type = r.types[i]
                  /\ hostCalls[i].wrapper.cls = r.nodes[i]

\* C2 witness: registerNodes threw MissingType at the second definition of its
\* list, after registering the first.
C2_Witness ==
    \E r \in Runs : r.err = MissingType /\ r.at = 2 /\ r.made = 1 /\ Len(hostCalls) = 1

\* The classes whose prototype chain, above the class itself, never reaches Node
NonNodeClasses ==
    {c \in Classes : \A i \in 2..Len(Chain(c)) : Chain(c)[i] # "Node"}

\* C3: adapting a class that does not extend Node, directly or by registerNodes,
\* fails with ContractViolation and changes nothing: no static property of any
\* class, no init call, no wrapper, no registerType call for it.
C3_ContractViolationHasNoEffect ==
    [][/\ (Len(calls') > Len(calls) /\ calls'[Len(calls')].cls \in NonNodeClasses) =>
            /\ calls'[Len(calls')].pc = "rejected"
            /\ calls'[Len(calls')].err = ContractViolation
            /\ statics' = statics
            /\ initCalls' = initCalls
            /\ hostCalls' = hostCalls
       /\ (Len(run') > Len(run)) =>
            LET r == run'[Len(run')]
            IN  \A i \in 1..Len(r.nodes) :
                    (r.nodes[i] \in NonNodeClasses /\ \A j \in 1..i : Truthy(r.types[j])) =>
                        /\ r.err = ContractViolation
                        /\ r.at <= i
                        /\ \A h \in 1..Len(hostCalls') : hostCalls'[h].wrapper.cls \notin NonNodeClasses
                        /\ statics' = statics
                        /\ initCalls' = initCalls
      ]_vars

\* C3 witness: X, which extends nothing, was adapted directly and was handed to
\* registerNodes with a declared type; both failed with ContractViolation.
C3_Witness ==
    /\ \E k \in 1..Len(calls) : calls[k].cls = "X" /\ calls[k].err = ContractViolation
    /\ \E r \in Runs : r.err = ContractViolation /\ r.nodes[r.at] = "X" /\ r.at = 2
    /\ initCalls["X"] = 0
    /\ statics["X"].RED = Absent

\* new Error for a second injection of the per-type metadata: thrown nowhere in the code
AlreadyInitialized == [name |-> "AlreadyInitialized"]

\* C8: registerNodes(host, [A, B]) over two definitions declaring the same type
\* fails: adapting the second throws AlreadyInitialized, and the type is not
\* installed twice in the host.
C8_DuplicateTypeRejected ==
    \A r \in Runs :
        (/\ Len(r.nodes) = 2
         /\ r.nodes[1] # r.nodes[2]
         /\ ExtendsNode(r.nodes[1]) /\ ExtendsNode(r.nodes[2])
         /\ Truthy(r.types[1]) /\ r.types[1] = r.types[2]) =>
            /\ r.err = AlreadyInitialized
            /\ r.at = 2
            /\ \A i, j \in 1..Len(hostCalls) : i # j => hostCalls[i].type # hostCalls[j].type


Calls == 1..Len(calls)

Instances == {instances[i] : i \in 1..Len(instances)}

\* The call got past the two validations of the adapter and the injections
Validated(k) ==
    /\ ExtendsNode(calls[k].cls)
    /\ Truthy(calls[k].type)
    /\ calls[k].err # DefineTypeError

\* C4: static init of a definition is invoked once by each adaptation of it and
\* by nothing else, whatever the number of instances constructed: a definition
\* adapted once has had init invoked exactly once.
C4_InitOncePerAdaptation ==
    \A c \in Definitions :
        InitOf(c) # "notfn" =>
            initCalls[c] = Cardinality({k \in Calls : calls[k].cls = c /\ Validated(k)})

\* C4 witness: a definition adapted once, with two instances of its wrapper
\* constructed, whose init has been invoked once.
C4_Witness ==
    \E c \in Definitions :
        /\ Cardinality({k \in Calls : calls[k].cls = c}) = 1
        /\ Cardinality({i \in 1..Len(instances) : calls[instances[i].wrapper].cls = c}) >= 2
        /\ initCalls[c] = 1

inputEvent == <<"i","n","p","u","t">>

closeEvent == <<"c","l","o","s","e">>

OnEntries(inst) == {j \in 1..Len(inst.log) : inst.log[j].op = "on"}

Declares(c, methodName) == Includes(PrototypeOwnNames(c), methodName)

\* C6: an instance is subscribed once to "input" when its class declares onInput
\* on its own prototype and not at all otherwise, the same for "close" and
\* onClose, and to nothing else.
C6_OwnHooksSubscribedOnce ==
    \A inst \in Instances :
        LET c == calls[inst.wrapper].cls
        IN  /\ Cardinality({j \in OnEntries(inst) : inst.log[j].event = inputEvent})
                 = (IF Declares(c, onInput) THEN 1 ELSE 0)
            /\ Cardinality({j \in OnEntries(inst) : inst.log[j].event = closeEvent})
                 = (IF Declares(c, onClose) THEN 1 ELSE 0)
            /\ \A j \in OnEntries(inst) : inst.log[j].event \in {inputEvent, closeEvent}

\* C6 witness: an instance of A (onInput only) subscribed to "input" alone, and
\* an instance of C (its own onClose, onInput inherited from A) subscribed to
\* "close" alone.
C6_Witness ==
    /\ \E inst \in Instances :
          /\ calls[inst.wrapper].cls = "A"
          /\ {inst.log[j].event : j \in OnEntries(inst)} = {inputEvent}
    /\ \E inst \in Instances :
          /\ calls[inst.wrapper].cls = "C"
          /\ {inst.log[j].event : j \in OnEntries(inst)} = {closeEvent}

C10_MetadataWrittenOnce ==
    [][\A c \in Definitions :
          /\ GetStatic(c, "RED") # Undefined => GetStaticIn(statics', c, "RED") = GetStatic(c, "RED")
          /\ GetStatic(c, "type") # Undefined => GetStaticIn(statics', c, "type") = GetStatic(c, "type")
      ]_vars

\* C10 witness: A was adapted twice, with two handles and two types, and still
\* reads the handle and the type of the first adaptation.
C10_Witness ==
    /\ Len(calls) = 2
    /\ calls[1].cls = "A" /\ calls[2].cls = "A"
    /\ Validated(1) /\ Validated(2)
    /\ calls[1].RED # calls[2].RED /\ calls[1].type # calls[2].type
    /\ GetStatic("A", "RED") = calls[1].RED
    /\ GetStatic("A", "type") = calls[1].type

\* The validated calls of the adapter for the class c, in the order made
CallsOf(c) == {k \in Calls : calls[k].cls = c /\ Validated(k)}

\* C11: a second adaptation of a definition that already carries the host handle
\* and the type fails with AlreadyInitialized, and init is not run again.
C11_SecondAdaptationRejected ==
    \A c \in Definitions :
        \A k1, k2 \in CallsOf(c) :
            k1 < k2 =>
                /\ calls[k2].pc = "rejected"
                /\ calls[k2].err = AlreadyInitialized
                /\ InitOf(c) # "notfn" => initCalls[c] = 1

\* A list of valid definitions: each extends Node and declares a type
ValidList(r) ==
    \A i \in 1..Len(r.nodes) : r.nodes[i] \notin NonNodeClasses /\ Truthy(r.types[i])

\* C12: for a list of valid definitions registerNodes returns normally having
\* called registerType once per definition, in the order of the list: the i-th
\* call carries the type and the wrapper of the i-th definition.
C12_OneRegisterTypePerDefinitionInOrder ==
    \A r \in Runs :
        ValidList(r) =>
            /\ r.err = NoError
            /\ r.made = Len(r.nodes)
            /\ Len(hostCalls) = Len(r.nodes)
            /\ \A i \in 1..Len(r.nodes) :
                  /\ hostCalls[i].RED = r.RED
                  /\ hostCalls[i].type = r.types[i]
                  /\ hostCalls[i].wrapper.cls = r.nodes[i]

\* C12 witness: registerNodes over three different definitions with three
\* different types made its three registerType calls.
C12_Witness ==
    \E r \in Runs :
        /\ ValidList(r)
        /\ Len(r.nodes) = 3
        /\ Cardinality({r.nodes[i] : i \in 1..3}) = 3
        /\ Cardinality({r.types[i] : i \in 1..3}) = 3
        /\ Len(hostCalls) = 3

\* C13: every registerType call registerNodes makes carries, as its third
\* argument, the descriptor {credentials, settings} of the definition it installs.
C13_DescriptorReachesHost ==
    \A h \in 1..Len(hostCalls) :
        /\ hostCalls[h].props # Undefined
        /\ hostCalls[h].props.credentials = CredentialsOf(hostCalls[h].wrapper.cls)

\* The keys the README names, and the keys with the setting name capitalised
node1customSetting == <<"n","o","d","e","1","c","u","s","t","o","m","S","e","t","t","i","n","g">>

myNodeexampleSetting == <<"m","y","N","o","d","e","e","x","a","m","p","l","e","S","e","t","t","i","n","g">>

node1CustomSetting == <<"n","o","d","e","1","C","u","s","t","o","m","S","e","t","t","i","n","g">>

myNodeExampleSetting == <<"m","y","N","o","d","e","E","x","a","m","p","l","e","S","e","t","t","i","n","g">>

\* The descriptors computed for the type t from a settings map declaring key
DescriptorsFor(t, key) ==
    {d \in Descriptors : /\ DescriptorType(d) = Str(t)
                         /\ Truthy(d.returned)
                         /\ HasKey(d.returned.entries, key)}

Steps(inst, op) == {j \in 1..Len(inst.log) : inst.log[j].op = op}

\* C15: the construction of an instance runs the author's constructor, the
\* host's createNode for the instance and the event-handler binder once each,
\* and every subscription of the instance comes after its createNode, inside
\* the one run of the binder, which is the last thing the constructor does.
C15_ConstructionOrder ==
    \A inst \in Instances :
        /\ Cardinality(Steps(inst, "baseConstructor")) = 1
        /\ Cardinality(Steps(inst, "createNode")) = 1
        /\ Cardinality(Steps(inst, "setupEventHandlers")) = 1
        /\ \A j \in Steps(inst, "on") :
              /\ \E i \in Steps(inst, "createNode") : i < j
              /\ \E i \in Steps(inst, "setupEventHandlers") : i < j
        /\ \A i \in Steps(inst, "setupEventHandlers") :
              \A j \in i + 1..Len(inst.log) : inst.log[j].op = "on"

\* C15 witness: an instance of B, which declares onInput and onClose, has been
\* constructed with its two subscriptions.
C15_Witness ==
    \E inst \in Instances :
        /\ calls[inst.wrapper].cls = "B"
        /\ Cardinality(Steps(inst, "on")) = 2

\* C16: registrationProperties() leaves the object settings() returned as it
\* was, so that a second call returns a descriptor equal to the first, also
\* when settings() hands out the same object on every call.
C16_SettingsObjectLeftUntouched ==
    /\ \A i, j \in 1..Len(descriptors) :
          descriptors[i].wrapper = descriptors[j].wrapper =>
              /\ descriptors[i].settings = descriptors[j].settings
              /\ descriptors[i].credentials = descriptors[j].credentials
    /\ \A i \in 1..Len(descriptors) :
          LET owner == StaticsOwner(calls[descriptors[i].wrapper].cls)
          IN  settingsRet[owner].shared => settingsRet[owner].obj = descriptors[1].returned

\* C17: the type read from a successfully adapted definition, which is the
\* prefix its registrationProperties() uses, is the type that was passed to the
\* adapter for it, whatever other definitions were adapted before or after it
\* (stated for a definition adapted once, a parent of it adapted earlier included).
C17_TypeReadIsTypePassed ==
    \A k \in Calls :
        (HasWrapper(k) /\ CallsOf(calls[k].cls) = {k}) =>
            GetStatic(calls[k].cls, "type") = calls[k].type

\* C18: registrationProperties() loses no setting: the descriptor's settings has
\* as many entries as the map settings() returned, and every value of that map
\* is found under the namespaced form of its own key.
C18_NoSettingLost ==
    \A d \in Descriptors :
        Truthy(d.returned) =>
            /\ Len(d.settings.entries) = Len(d.returned.entries)
            /\ \A i \in 1..Len(d.returned.entries) :
                  LET e == d.returned.entries[i]
                      newKey == NewKey(DescriptorType(d), e.key)
                  IN  /\ HasKey(d.settings.entries, newKey)
                      /\ GetKey(d.settings.entries, newKey) = e.value

====
